---- MODULE Spec2Model ----
(***************************************************************************)
(* Model of waanverse_mailer/email_service.py: EnhancedEmailService.       *)
(* A string is a sequence of one-character strings.  A call of send_email  *)
(* is a frame that moves through the statements of the method; detached    *)
(* EmailThread objects and pool workers interleave with the caller.        *)
(***************************************************************************)
EXTENDS Integers, Sequences, FiniteSets, TLC

\* ------------------------------------------------------------ bounds
\* send_email calls made one after the other by the caller (SpecSend)
MaxCalls == 2
\* longest recipient_list handed to parallel_email_send (SpecParallel)
MaxParallelLen == 3
\* most addresses of one such list that pass validation (pool tasks of one call)
MaxTasks == 2
\* longest recipient_list handed to send_batch_emails (SpecBatch)
MaxBatchLen == 4

\* EmailConfig.MAX_RECIPIENTS, EmailConfig.BATCH_SIZE, EmailConfig.THREAD_POOL_SIZE:
\* read from email_config when the class is defined; the values here are small
\* stand-ins for whatever the configuration holds
MAX_RECIPIENTS == 2
BATCH_SIZE == 2
THREAD_POOL_SIZE == 2

\* ------------------------------------------------------------ validate_email
Letters == {"a", "b", "c", "e", "o", "u", "x"}
Digits == {"1"}
\* [a-zA-Z0-9._%+-]
LocalChars == Letters \cup Digits \cup {".", "_", "%", "+", "-"}
\* [a-zA-Z0-9.-]
DomainChars == Letters \cup Digits \cup {".", "-"}

AllIn(s, lo, hi, cls) == \A i \in lo..hi : s[i] \in cls

\* ^[a-zA-Z0-9._%+-]+@[a-zA-Z0-9.-]+\.[a-zA-Z]{2,} up to the end of t
FullMatch(t) ==
    \E at \in 2..Len(t) : \E dot \in (at + 2)..Len(t) :
        /\ t[at] = "@"
        /\ AllIn(t, 1, at - 1, LocalChars)
        /\ AllIn(t, at + 1, dot - 1, DomainChars)
        /\ t[dot] = "."
        /\ Len(t) - dot >= 2
        /\ AllIn(t, dot + 1, Len(t), Letters)

\* email_regex.match(email): $ matches at the end and before a final newline
RegexMatch(s) ==
    \/ FullMatch(s)
    \/ Len(s) > 0 /\ s[Len(s)] = "\n" /\ FullMatch(SubSeq(s, 1, Len(s) - 1))

\* email.split("@")[0]
LocalPart(s) ==
    IF \E i \in 1..Len(s) : s[i] = "@"
    THEN LET first == CHOOSE i \in 1..Len(s) :
                          s[i] = "@" /\ \A j \in 1..(i - 1) : s[j] # "@"
         IN SubSeq(s, 1, first - 1)
    ELSE s

validate_email(email) ==
    IF email = <<>> THEN FALSE
    ELSE RegexMatch(email) /\ Len(email) <= 254 /\ Len(LocalPart(email)) <= 64

\* sample addresses: "u@e.co", "x@e.co", "ab"
GoodAddr == <<"u", "@", "e", ".", "c", "o">>
GoodAddr2 == <<"x", "@", "e", ".", "c", "o">>
BadAddr == <<"a", "b">>

Addresses == {GoodAddr, GoodAddr2, BadAddr}

\* ------------------------------------------------------------ state
\* self._connection = None
NoConnection == 0

VARIABLES
    threading_enabled,     \* email_config.email_threading_enabled
    connection,            \* self._connection: NoConnection, or the handle made
                           \* by the n-th call of get_connection
    get_connection_calls,  \* calls of django get_connection made so far
    frames,                \* the send_email calls made so far, one record each
    transport_seen,        \* addresses of the messages handed to the transport
    par,                   \* the parallel_email_send call of the caller
    bat,                   \* the send_batch_emails call of the caller
    ret,                   \* the retry_failed_emails call of the caller
    tx,                    \* the send_transactional_email call of the caller
    val                    \* the validate_email call of the caller

vars == <<threading_enabled, connection, get_connection_calls, frames,
          transport_seen, par, bat, ret, tx, val>>

\* the exceptions the collaborators raise; all derive from Exception
ExceptionSubclasses ==
    {"ValueError", "TemplateDoesNotExist", "ConnectionFailed",
     "FileNotFoundError", "SMTPException", "Exception"}

\* a recipient_list argument: a str or a list of str
StrArg(a) == [isstr |-> TRUE, v |-> a]
ListArg(l) == [isstr |-> FALSE, v |-> l]

\* if isinstance(recipient_list, str): recipient_list = [recipient_list]
Normalize(arg) == IF arg.isstr THEN <<arg.v>> ELSE arg.v

\* a send_email call that has been made and has not run a statement yet
NewFrame(arg, async, ex) ==
    [pc |-> "called", executor |-> ex, arg |-> arg, to |-> <<>>,
     async_send |-> async, mock |-> FALSE,
     result |-> "None", raised |-> "None", caught |-> "None", errors |-> 0,
     rendered |-> FALSE, conn_accessed |-> FALSE, built |-> FALSE,
     sent |-> "none", sent_by |-> "none", thread |-> "none",
     established |-> FALSE, conn_failed |-> FALSE,
     conn |-> NoConnection, thread_conn |-> NoConnection]

\* len(recipient_list) > self.config.MAX_RECIPIENTS
TooManyRecipients_offbyone(to) == Len(to) > MAX_RECIPIENTS + 1
TooManyRecipients(to) == Len(to) > MAX_RECIPIENTS

\* except Exception as e
SendEmailCatches_narrow(exc) == exc = "SMTPException"
SendEmailCatches(exc) == exc \in ExceptionSubclasses

\* the except clause of send_email: log once and return False; anything the
\* clause does not catch leaves the call as a raised exception
SendEmailExcept_twolog(f, exc) ==
    IF SendEmailCatches(exc)
    THEN [f EXCEPT !.pc = "returned", !.result = "False", !.caught = exc,
                   !.errors = @ + 2]
    ELSE [f EXCEPT !.pc = "returned", !.raised = exc]
SendEmailExcept(f, exc) ==
    IF SendEmailCatches(exc)
    THEN [f EXCEPT !.pc = "returned", !.result = "False", !.caught = exc,
                   !.errors = @ + 1]
    ELSE [f EXCEPT !.pc = "returned", !.raised = exc]

\* async_send: bool = True
DefaultAsyncSend_false == FALSE
DefaultAsyncSend == TRUE

\* async_send and email_config.email_threading_enabled
UsesThread_always(f) == TRUE
UsesThread(f) == f.async_send /\ threading_enabled

Running(f) == f.pc \in {"conn_check", "conn_establish", "conn_return", "dispatch"}

\* a pool task starts when a worker is free, in submission order
WorkerFree(k) ==
    frames[k].executor = "pool" =>
        /\ Cardinality({j \in DOMAIN frames :
               frames[j].executor = "pool" /\ Running(frames[j])}) < THREAD_POOL_SIZE
        /\ \A j \in 1..(k - 1) : frames[j].pc # "called"

\* send_email, lines 300-313: normalise, check the length, render the template
SendEmailBegin(k) ==
    /\ frames[k].pc = "called"
    /\ WorkerFree(k)
    /\ LET f == [frames[k] EXCEPT !.to = Normalize(frames[k].arg)] IN
       IF TooManyRecipients(f.to)
       THEN frames' = [frames EXCEPT ![k] = SendEmailExcept(f, "ValueError")]
       ELSE \E render_ok \in BOOLEAN :
              frames' = [frames EXCEPT ![k] =
                 IF render_ok
                 THEN [f EXCEPT !.rendered = TRUE, !.pc = "conn_check"]
                 ELSE SendEmailExcept([f EXCEPT !.rendered = TRUE],
                                      "TemplateDoesNotExist")]
    /\ UNCHANGED <<threading_enabled, connection, get_connection_calls,
                   transport_seen, par, bat, ret, tx, val>>

\* connection property, line 76: self._connection is None
NeedsEstablish_always(c) == TRUE
NeedsEstablish(c) == c = NoConnection

\* connection property, lines 84-86: the except clause logs and re-raises; it
\* assigns nothing, so self._connection keeps its value
OnEstablishFailure_cached(c) == -1
OnEstablishFailure(c) == c

\* connection property, line 76: if self._connection is None
ConnectionCheck(k) ==
    /\ frames[k].pc = "conn_check"
    /\ frames' = [frames EXCEPT ![k].conn_accessed = TRUE,
                                ![k].pc = IF NeedsEstablish(connection)
                                          THEN "conn_establish" ELSE "conn_return"]
    /\ UNCHANGED <<threading_enabled, connection, get_connection_calls,
                   transport_seen, par, bat, ret, tx, val>>

\* connection property, lines 77-86: get_connection, or log and re-raise
ConnectionEstablish(k) ==
    /\ frames[k].pc = "conn_establish"
    /\ get_connection_calls' = get_connection_calls + 1
    /\ \E ok \in BOOLEAN :
         IF ok
         THEN /\ connection' = get_connection_calls + 1
              /\ frames' = [frames EXCEPT ![k].pc = "conn_return",
                                          ![k].established = TRUE]
         ELSE /\ connection' = OnEstablishFailure(connection)
              /\ frames' = [frames EXCEPT ![k] =
                    SendEmailExcept([frames[k] EXCEPT !.errors = @ + 1,
                                                      !.conn_failed = TRUE],
                                    "ConnectionFailed")]
    /\ UNCHANGED <<threading_enabled, transport_seen, par, bat, ret, tx, val>>

\* connection property, line 88: return self._connection
ConnectionReturn(k) ==
    /\ frames[k].pc = "conn_return"
    /\ frames' = [frames EXCEPT ![k].conn = connection, ![k].pc = "dispatch"]
    /\ UNCHANGED <<threading_enabled, connection, get_connection_calls,
                   transport_seen, par, bat, ret, tx, val>>

\* the rest of prepare_email_message (attachments), then lines 315-324
SendEmailDispatch(k) ==
    /\ frames[k].pc = "dispatch"
    /\ \E attach_ok \in BOOLEAN, send_ok \in BOOLEAN :
         LET f == frames[k] IN
         IF ~attach_ok
         THEN /\ frames' = [frames EXCEPT ![k] =
                               SendEmailExcept(f, "FileNotFoundError")]
              /\ UNCHANGED transport_seen
         ELSE IF UsesThread(f)
         THEN /\ frames' = [frames EXCEPT ![k] =
                     [f EXCEPT !.built = TRUE, !.thread = "started",
                               !.result = "True", !.pc = "returned"]]
              /\ UNCHANGED transport_seen
         ELSE /\ transport_seen' = transport_seen \cup {f.to[i] : i \in DOMAIN f.to}
              /\ frames' = [frames EXCEPT ![k] =
                     IF send_ok
                     THEN [f EXCEPT !.built = TRUE, !.sent = "ok",
                                    !.sent_by = "caller",
                                    !.result = "True", !.pc = "returned"]
                     ELSE SendEmailExcept(
                              [f EXCEPT !.built = TRUE, !.sent = "raised",
                                        !.sent_by = "caller"],
                              "SMTPException")]
    /\ UNCHANGED <<threading_enabled, connection, get_connection_calls, par, bat, ret, tx, val>>

\* EmailThread.run, line 202: enter the connection's scope (open); a failure is
\* logged by the thread and goes nowhere else
ThreadEnter(k) ==
    /\ frames[k].thread = "started"
    /\ connection # NoConnection
    /\ \E ok \in BOOLEAN :
         frames' = [frames EXCEPT ![k] =
            IF ok THEN [@ EXCEPT !.thread = "in_scope", !.thread_conn = connection]
            ELSE [@ EXCEPT !.thread = "done", !.thread_conn = connection,
                           !.errors = @ + 1]]
    /\ UNCHANGED <<threading_enabled, connection, get_connection_calls,
                   transport_seen, par, bat, ret, tx, val>>

\* EmailThread.run, lines 203-205: send_messages, leave the scope
ThreadSend(k) ==
    /\ frames[k].thread = "in_scope"
    /\ transport_seen' = transport_seen \cup
                           {frames[k].to[i] : i \in DOMAIN frames[k].to}
    /\ \E ok \in BOOLEAN :
         frames' = [frames EXCEPT ![k] =
            IF ok THEN [@ EXCEPT !.thread = "done", !.sent = "ok",
                                 !.sent_by = "thread"]
            ELSE [@ EXCEPT !.thread = "done", !.sent = "raised",
                           !.sent_by = "thread", !.errors = @ + 1]]
    /\ UNCHANGED <<threading_enabled, connection, get_connection_calls, par, bat, ret, tx, val>>

\* ------------------------------------------------------------ the caller: send_email
\* recipient_list arguments the caller passes: a str, or a list of 0 .. MAX_RECIPIENTS + 1
ListOfLen(n) == [i \in 1..n |-> GoodAddr]
SendArgs == {StrArg(GoodAddr)} \cup {ListArg(ListOfLen(n)) : n \in 0..(MAX_RECIPIENTS + 1)}

Idle == [pc |-> "idle"]

\* the caller calls send_email once the call before it has returned
CallSendEmail ==
    /\ Len(frames) < MaxCalls
    /\ \A k \in DOMAIN frames : frames[k].pc = "returned"
    /\ \E arg \in SendArgs, async \in BOOLEAN :
         frames' = Append(frames, NewFrame(arg, async, "main"))
    /\ UNCHANGED <<threading_enabled, connection, get_connection_calls,
                   transport_seen, par, bat, ret, tx, val>>

InitSend ==
    /\ threading_enabled \in BOOLEAN
    /\ connection = NoConnection
    /\ get_connection_calls = 0
    /\ frames = <<>>
    /\ transport_seen = {}
    /\ par = Idle
    /\ bat = Idle
    /\ ret = Idle
    /\ tx = Idle
    /\ val = Idle

NextSend ==
    \/ CallSendEmail
    \/ \E k \in DOMAIN frames : SendEmailBegin(k)
    \/ \E k \in DOMAIN frames : ConnectionCheck(k)
    \/ \E k \in DOMAIN frames : ConnectionEstablish(k)
    \/ \E k \in DOMAIN frames : ConnectionReturn(k)
    \/ \E k \in DOMAIN frames : SendEmailDispatch(k)
    \/ \E k \in DOMAIN frames : ThreadEnter(k)
    \/ \E k \in DOMAIN frames : ThreadSend(k)

SpecSend == InitSend /\ [][NextSend]_vars

\* ------------------------------------------------------------ parallel_email_send
Min(a, b) == IF a < b THEN a ELSE b

\* valid_recipients = [r for r in recipient_list if self.validate_email(r)]
ValidRecipients_all(recipient_list) == recipient_list
ValidRecipients(recipient_list) == SelectSeq(recipient_list, validate_email)

SeqsUpTo(S, n) == UNION {[1..m -> S] : m \in 0..n}
\* recipient lists of up to MaxParallelLen addresses of which at most MaxTasks
\* pass validation (each of those becomes a pool task)
ParallelArgs ==
    {l \in SeqsUpTo({GoodAddr, BadAddr}, MaxParallelLen) :
        Len(SelectSeq(l, validate_email)) <= MaxTasks}

\* lines 113-134: filter, initialise results, submit one send_email per valid
\* recipient (async_send is not passed, so it takes its default, True)
ParallelBegin ==
    /\ par.pc = "idle"
    /\ \E recipient_list \in ParallelArgs :
         LET valid == ValidRecipients(recipient_list) IN
         /\ par' = [pc |-> "collecting",
                    recipient_list |-> recipient_list,
                    valid_recipients |-> valid,
                    total_recipients |-> Len(recipient_list),
                    valid_count |-> Len(valid),
                    successful_sends |-> 0,
                    failed_sends |-> 0,
                    failed_recipients |-> <<>>,
                    collected |-> {},
                    errors |-> 0]
         /\ frames' = [k \in 1..Len(valid) |->
                          NewFrame(ListArg(<<valid[k]>>), DefaultAsyncSend, "pool")]
    /\ UNCHANGED <<threading_enabled, connection, get_connection_calls,
                   transport_seen, bat, ret, tx, val>>

\* a task whose send_email is substituted by one that raises, as the tests do
\* with patch.object(..., side_effect=Exception(...))
TaskRaises(k) ==
    /\ frames[k].pc = "called"
    /\ frames[k].executor = "pool"
    /\ WorkerFree(k)
    /\ frames' = [frames EXCEPT ![k].pc = "returned", ![k].mock = TRUE,
                                ![k].raised = "Exception"]
    /\ UNCHANGED <<threading_enabled, connection, get_connection_calls,
                   transport_seen, par, bat, ret, tx, val>>

\* lines 137-148: one completed future
CollectResult_dropexc(r, f, recipient) ==
    IF f.raised # "None"
    THEN [r EXCEPT !.failed_recipients = Append(@, recipient),
                   !.errors = @ + 1]
    ELSE IF f.result = "True"
    THEN [r EXCEPT !.successful_sends = @ + 1]
    ELSE [r EXCEPT !.failed_sends = @ + 1,
                   !.failed_recipients = Append(@, recipient)]
CollectResult(r, f, recipient) ==
    IF f.raised # "None"
    THEN [r EXCEPT !.failed_sends = @ + 1,
                   !.failed_recipients = Append(@, recipient),
                   !.errors = @ + 1]
    ELSE IF f.result = "True"
    THEN [r EXCEPT !.successful_sends = @ + 1]
    ELSE [r EXCEPT !.failed_sends = @ + 1,
                   !.failed_recipients = Append(@, recipient)]

\* for future in as_completed(future_to_recipient): any future that is done
ParallelCollect(k) ==
    /\ par.pc = "collecting"
    /\ k \notin par.collected
    /\ frames[k].pc = "returned"
    /\ par' = [CollectResult(par, frames[k], par.valid_recipients[k])
                  EXCEPT !.collected = @ \cup {k}]
    /\ UNCHANGED <<threading_enabled, connection, get_connection_calls, frames,
                   transport_seen, bat, ret, tx, val>>

\* line 150: every future has been collected; the executor has shut down
ParallelReturn ==
    /\ par.pc = "collecting"
    /\ par.collected = DOMAIN frames
    /\ par' = [par EXCEPT !.pc = "returned"]
    /\ UNCHANGED <<threading_enabled, connection, get_connection_calls, frames,
                   transport_seen, bat, ret, tx, val>>

InitParallel == InitSend

NextParallel ==
    \/ ParallelBegin
    \/ \E k \in DOMAIN frames : SendEmailBegin(k)
    \/ \E k \in DOMAIN frames : TaskRaises(k)
    \/ \E k \in DOMAIN frames : ConnectionCheck(k)
    \/ \E k \in DOMAIN frames : ConnectionEstablish(k)
    \/ \E k \in DOMAIN frames : ConnectionReturn(k)
    \/ \E k \in DOMAIN frames : SendEmailDispatch(k)
    \/ \E k \in DOMAIN frames : ThreadEnter(k)
    \/ \E k \in DOMAIN frames : ThreadSend(k)
    \/ \E k \in DOMAIN frames : ParallelCollect(k)
    \/ ParallelReturn

SpecParallel == InitParallel /\ [][NextParallel]_vars

\* ------------------------------------------------------------ send_batch_emails
BatchArgs == SeqsUpTo(Addresses, MaxBatchLen)

\* batch = recipient_list[i : i + self.config.BATCH_SIZE]
BatchSlice_short(recipient_list, i) ==
    SubSeq(recipient_list, i + 1, Min(i + BATCH_SIZE - 1, Len(recipient_list)))
BatchSlice(recipient_list, i) ==
    SubSeq(recipient_list, i + 1, Min(i + BATCH_SIZE, Len(recipient_list)))

\* {"recipient": recipient, "error": str(e)} for recipient in batch
FailedRecords(batch, exc) ==
    [j \in 1..Len(batch) |-> [recipient |-> batch[j], error |-> exc]]

\* lines 351-353
BatchBegin ==
    /\ bat.pc = "idle"
    /\ \E recipient_list \in BatchArgs :
         bat' = [pc |-> "loop", recipient_list |-> recipient_list, i |-> 0,
                 success_count |-> 0, failure_count |-> 0,
                 failed_recipients |-> <<>>, chunks |-> <<>>,
                 raised |-> "None", conn_failed |-> FALSE, errors |-> 0]
    /\ UNCHANGED <<threading_enabled, connection, get_connection_calls, frames,
                   transport_seen, par, ret, tx, val>>

\* one pass of the loop, lines 355-372: build the chunk's messages outside the
\* try (a failure leaves send_batch_emails as an exception), send them inside it
BatchChunk ==
    /\ bat.pc = "loop"
    /\ bat.i < Len(bat.recipient_list)
    /\ LET batch == BatchSlice(bat.recipient_list, bat.i) IN
       \E build \in {"ok", "render_fail", "conn_fail"}, send_ok \in BOOLEAN :
         /\ build = "conn_fail" => NeedsEstablish(connection)
         /\ IF build = "render_fail"
            THEN /\ bat' = [bat EXCEPT !.pc = "raised",
                                       !.raised = "TemplateDoesNotExist"]
                 /\ UNCHANGED <<connection, get_connection_calls, transport_seen>>
            ELSE IF build = "conn_fail"
            THEN /\ bat' = [bat EXCEPT !.pc = "raised",
                                       !.raised = "ConnectionFailed",
                                       !.conn_failed = TRUE,
                                       !.errors = @ + 1]
                 /\ get_connection_calls' = get_connection_calls + 1
                 /\ connection' = OnEstablishFailure(connection)
                 /\ UNCHANGED transport_seen
            ELSE /\ connection' =
                       IF NeedsEstablish(connection) THEN get_connection_calls + 1
                       ELSE connection
                 /\ get_connection_calls' =
                       IF NeedsEstablish(connection) THEN get_connection_calls + 1
                       ELSE get_connection_calls
                 /\ transport_seen' = transport_seen \cup
                                         {batch[j] : j \in DOMAIN batch}
                 /\ bat' = IF send_ok
                       THEN [bat EXCEPT !.success_count = @ + Len(batch),
                                        !.i = @ + BATCH_SIZE,
                                        !.chunks = Append(@, [batch |-> batch,
                                                              ok |-> TRUE])]
                       ELSE [bat EXCEPT !.failure_count = @ + Len(batch),
                                        !.failed_recipients =
                                            @ \o FailedRecords(batch, "SMTPException"),
                                        !.errors = @ + 1,
                                        !.i = @ + BATCH_SIZE,
                                        !.chunks = Append(@, [batch |-> batch,
                                                              ok |-> FALSE])]
    /\ UNCHANGED <<threading_enabled, frames, par, ret, tx, val>>

\* line 374: the range is exhausted
BatchReturn ==
    /\ bat.pc = "loop"
    /\ bat.i >= Len(bat.recipient_list)
    /\ bat' = [bat EXCEPT !.pc = "returned"]
    /\ UNCHANGED <<threading_enabled, connection, get_connection_calls, frames,
                   transport_seen, par, ret, tx, val>>

InitBatch == InitSend

NextBatch == BatchBegin \/ BatchChunk \/ BatchReturn

SpecBatch == InitBatch /\ [][NextBatch]_vars

\* ------------------------------------------------------------ retry_failed_emails
\* longest failed_recipients list and largest `retries` handed to retry_failed_emails
MaxRetryLen == 3
MaxRetries == 2

\* a failed-recipient record with the keys retry_failed_emails reads
FullRecord(a) ==
    [recipient |-> a, subject |-> "s", template_name |-> "t", context |-> "c",
     error |-> "SMTPException"]

\* the lists the caller passes: records it built itself, or the list that
\* send_batch_emails returned for a batch it could not send
RetryArgs ==
    {[i \in DOMAIN l |-> FullRecord(l[i])] : l \in SeqsUpTo({GoodAddr, GoodAddr2}, MaxRetryLen)}
    \cup {FailedRecords(l, "SMTPException") : l \in SeqsUpTo({GoodAddr}, MaxRetryLen) \ {<<>>}}

\* list.remove(x): the position of the first element equal to x, 0 if there is none
FirstEqual(l, x) ==
    IF \E p \in DOMAIN l : l[p] = x
    THEN CHOOSE p \in DOMAIN l : l[p] = x /\ \A q \in 1..(p - 1) : l[q] # x
    ELSE 0
DropAt(l, p) == SubSeq(l, 1, p - 1) \o SubSeq(l, p + 1, Len(l))

\* failed["subject"], failed["template_name"], failed["context"], failed["recipient"]
KeysRead == {"subject", "template_name", "context", "recipient"}

\* lines 387-390: the call and the copy taken for the first round; range(1, retries + 1)
\* is empty when retries is 0
RetryBegin ==
    /\ ret.pc = "idle"
    /\ \E failed_recipients \in RetryArgs, retries \in 0..MaxRetries :
         ret' = [pc |-> IF retries >= 1 THEN "round" ELSE "returned",
                 retries |-> retries,
                 input |-> failed_recipients,
                 failed_recipients |-> failed_recipients,
                 ids |-> [i \in DOMAIN failed_recipients |-> i],
                 copy |-> failed_recipients,
                 copy_ids |-> [i \in DOMAIN failed_recipients |-> i],
                 j |-> 1, attempt |-> 1, sleeps |-> 0,
                 tried |-> [i \in DOMAIN failed_recipients |-> 0],
                 succeeded |-> {}, late |-> {}, pending_after |-> <<>>,
                 env_failures |-> 0, conn_failures |-> 0,
                 raised |-> "None", errors |-> 0]
    /\ UNCHANGED <<threading_enabled, connection, get_connection_calls, frames,
                   transport_seen, par, bat, tx, val>>

\* the except clause, lines 403-406: one log entry naming failed['recipient']
RetryExcept(r) ==
    IF "recipient" \in DOMAIN r.copy[r.j]
    THEN [r EXCEPT !.errors = @ + 1, !.j = @ + 1]
    ELSE [r EXCEPT !.pc = "raised", !.raised = "KeyError"]

\* the loop body for one record of the copy, lines 391-406
RetryAttempt ==
    /\ ret.pc = "round"
    /\ ret.j <= Len(ret.copy)
    /\ LET failed == ret.copy[ret.j]
           id == ret.copy_ids[ret.j]
           r == [ret EXCEPT !.tried[id] = @ + 1,
                            !.late = IF id \in ret.succeeded THEN @ \cup {id} ELSE @]
       IN
       IF ~(KeysRead \subseteq DOMAIN failed)
       THEN /\ ret' = RetryExcept(r)
            /\ UNCHANGED <<connection, get_connection_calls, transport_seen>>
       ELSE \E outcome \in {"ok", "render_fail", "conn_fail", "send_fail"} :
            /\ outcome = "conn_fail" => NeedsEstablish(connection)
            /\ IF outcome = "render_fail"
               THEN /\ ret' = RetryExcept([r EXCEPT !.env_failures = @ + 1])
                    /\ UNCHANGED <<connection, get_connection_calls, transport_seen>>
               ELSE IF outcome = "conn_fail"
               THEN /\ ret' = RetryExcept([r EXCEPT !.env_failures = @ + 1,
                                                     !.conn_failures = @ + 1,
                                                     !.errors = @ + 1])
                    /\ get_connection_calls' = get_connection_calls + 1
                    /\ connection' = OnEstablishFailure(connection)
                    /\ UNCHANGED transport_seen
               ELSE /\ connection' =
                          IF NeedsEstablish(connection) THEN get_connection_calls + 1
                          ELSE connection
                    /\ get_connection_calls' =
                          IF NeedsEstablish(connection) THEN get_connection_calls + 1
                          ELSE get_connection_calls
                    /\ transport_seen' = transport_seen \cup {failed.recipient}
                    /\ IF outcome = "send_fail"
                       THEN ret' = RetryExcept([r EXCEPT !.env_failures = @ + 1])
                       ELSE LET p == FirstEqual(r.failed_recipients, failed) IN
                            IF p = 0
                            THEN ret' = RetryExcept([r EXCEPT !.succeeded = @ \cup {id}])
                            ELSE ret' = [r EXCEPT
                                    !.failed_recipients = DropAt(@, p),
                                    !.ids = DropAt(@, p),
                                    !.succeeded = @ \cup {id},
                                    !.j = @ + 1]
    /\ UNCHANGED <<threading_enabled, frames, par, bat, tx, val>>

\* lines 407-408 and the next pass of `for attempt in range(1, retries + 1)`
RetryEndRound ==
    /\ ret.pc = "round"
    /\ ret.j > Len(ret.copy)
    /\ ret' = [ret EXCEPT
           !.sleeps = IF ret.failed_recipients # <<>> THEN @ + 1 ELSE @,
           !.pending_after = Append(@, ret.failed_recipients # <<>>),
           !.attempt = @ + 1,
           !.pc = IF ret.attempt + 1 <= ret.retries THEN "round" ELSE "returned",
           !.copy = ret.failed_recipients,
           !.copy_ids = ret.ids,
           !.j = 1]
    /\ UNCHANGED <<threading_enabled, connection, get_connection_calls, frames,
                   transport_seen, par, bat, tx, val>>

InitRetry == InitSend

NextRetry == RetryBegin \/ RetryAttempt \/ RetryEndRound

SpecRetry == InitRetry /\ [][NextRetry]_vars

\* ------------------------------------------------------------ one operation on a fresh service
\* the caller runs send_email calls, or one send_batch_emails, or one
\* retry_failed_emails
NextOps ==
    \/ bat.pc = "idle" /\ ret.pc = "idle" /\ NextSend
    \/ frames = <<>> /\ ret.pc = "idle" /\ NextBatch
    \/ frames = <<>> /\ bat.pc = "idle" /\ NextRetry

SpecOps == InitSend /\ [][NextOps]_vars

\* ------------------------------------------------------------ send_transactional_email
\* templates, lines 167-172
Templates ==
    [welcome |-> "welcome_email", password_reset |-> "password_reset",
     account_verification |-> "account_verification"]

EventTypes == DOMAIN Templates \cup {"unknown_event", ""}

\* templates.get(event_type)
TemplateFor_default(event_type) ==
    IF event_type \in DOMAIN Templates THEN Templates[event_type] ELSE "welcome_email"
TemplateFor(event_type) ==
    IF event_type \in DOMAIN Templates THEN Templates[event_type] ELSE "None"

\* lines 166-186: look the template up; log and return False if there is none,
\* otherwise call send_email with the recipient str and no async_send
TransactionalCall ==
    /\ tx.pc = "idle"
    /\ \E recipient \in {GoodAddr, BadAddr}, event_type \in EventTypes :
         LET template == TemplateFor(event_type) IN
         IF template \in {"None", ""}
         THEN /\ tx' = [pc |-> "returned", event_type |-> event_type,
                        recipient |-> recipient, result |-> "False",
                        raised |-> "None", errors |-> 1]
              /\ UNCHANGED frames
         ELSE /\ tx' = [pc |-> "sending", event_type |-> event_type,
                        recipient |-> recipient, result |-> "None",
                        raised |-> "None", errors |-> 0]
              /\ frames' = Append(frames,
                               NewFrame(StrArg(recipient), DefaultAsyncSend, "main"))
    /\ UNCHANGED <<threading_enabled, connection, get_connection_calls,
                   transport_seen, par, bat, ret, val>>

\* lines 181-189: return what send_email returned; an exception out of it is
\* logged and becomes False
TransactionalReturn ==
    /\ tx.pc = "sending"
    /\ frames[Len(frames)].pc = "returned"
    /\ tx' = IF frames[Len(frames)].raised # "None"
             THEN [tx EXCEPT !.pc = "returned", !.result = "False", !.errors = @ + 1]
             ELSE [tx EXCEPT !.pc = "returned", !.result = frames[Len(frames)].result]
    /\ UNCHANGED <<threading_enabled, connection, get_connection_calls, frames,
                   transport_seen, par, bat, ret, val>>

InitTransactional == InitSend

NextTransactional ==
    \/ TransactionalCall
    \/ \E k \in DOMAIN frames : SendEmailBegin(k)
    \/ \E k \in DOMAIN frames : ConnectionCheck(k)
    \/ \E k \in DOMAIN frames : ConnectionEstablish(k)
    \/ \E k \in DOMAIN frames : ConnectionReturn(k)
    \/ \E k \in DOMAIN frames : SendEmailDispatch(k)
    \/ \E k \in DOMAIN frames : ThreadEnter(k)
    \/ \E k \in DOMAIN frames : ThreadSend(k)
    \/ TransactionalReturn

SpecTransactional == InitTransactional /\ [][NextTransactional]_vars

\* ------------------------------------------------------------ the caller: validate_email
\* longest string of the enumerated arguments
MaxStrLen == 7

Rep(c, n) == [i \in 1..n |-> c]

\* addresses at the two length limits (local part 64 and 65, total 254 and 255)
LongSamples ==
    {Rep("u", 64) \o <<"@", "e", ".", "c", "o">>,
     Rep("u", 65) \o <<"@", "e", ".", "c", "o">>,
     Rep("u", 64) \o <<"@">> \o Rep("e", 186) \o <<".", "c", "o">>,
     Rep("u", 64) \o <<"@">> \o Rep("e", 187) \o <<".", "c", "o">>}

ValidateArgs == SeqsUpTo({"u", "1", "@", ".", "\n"}, MaxStrLen) \cup LongSamples

\* a call of validate_email, lines 58-71
ValidateCall ==
    /\ val.pc = "idle"
    /\ \E email \in ValidateArgs :
         val' = [pc |-> "done", email |-> email,
                 result |-> validate_email(email), raised |-> "None"]
    /\ UNCHANGED <<threading_enabled, connection, get_connection_calls, frames,
                   transport_seen, par, bat, ret, tx>>

InitValidate == InitSend

NextValidate == ValidateCall

SpecValidate == InitValidate /\ [][NextValidate]_vars

\* ------------------------------------------------------------ properties
Returned(f) == f.pc = "returned" /\ ~f.mock
SyncMode(f) == ~f.async_send \/ ~threading_enabled
AsyncMode(f) == f.async_send /\ threading_enabled
Count(seq, a) == Cardinality({i \in DOMAIN seq : seq[i] = a})
RECURSIVE Flatten(_)
Flatten(ss) == IF ss = <<>> THEN <<>> ELSE Head(ss) \o Flatten(Tail(ss))

C3_RaisesValueError ==
    \A k \in DOMAIN frames :
        Returned(frames[k]) /\ Len(frames[k].to) > MAX_RECIPIENTS =>
            frames[k].raised = "ValueError"

C5_AsyncReturnsBeforeSend ==
    \A k \in DOMAIN frames :
        LET f == frames[k] IN
        /\ f.thread # "none" =>
              /\ AsyncMode(f) /\ f.pc = "returned"
              /\ f.result = "True" /\ f.raised = "None"
              /\ f.sent_by # "caller"
        /\ f.thread = "started" => f.sent = "none"
        /\ Returned(f) /\ f.built /\ AsyncMode(f) => f.thread # "none"
        /\ Returned(f) /\ f.built /\ SyncMode(f) =>
              /\ f.thread = "none"
              /\ f.sent_by = "caller"
              /\ f.sent \in {"ok", "raised"}
              /\ f.result = (IF f.sent = "ok" THEN "True" ELSE "False")

C5_Witness ==
    \E k, j \in DOMAIN frames :
        /\ frames[k].thread = "done" /\ frames[k].sent = "raised"
        /\ frames[k].result = "True"
        /\ frames[j].thread = "started" /\ frames[j].pc = "returned"

C7_InvalidCountedAsFailed ==
    par.pc = "returned" /\ (\A k \in DOMAIN frames : frames[k].result = "True") =>
        par.failed_sends = par.total_recipients - par.valid_count

\* C8: when parallel_email_send returns, every task whose message was built
\* has finished its transport send, failed_recipients are exactly the
\* recipients whose transport send raised and successful_sends counts those
\* whose transport send succeeded.
C8_ParallelReflectsTransport ==
    par.pc = "returned" /\ (\A k \in DOMAIN frames : frames[k].built) =>
        /\ \A k \in DOMAIN frames : frames[k].sent \in {"ok", "raised"}
        /\ \A a \in Addresses :
              Count(par.failed_recipients, a) =
                  Cardinality({k \in DOMAIN frames :
                      frames[k].to = <<a>> /\ frames[k].sent = "raised"})
        /\ par.successful_sends =
              Cardinality({k \in DOMAIN frames : frames[k].sent = "ok"})

\* C9: parallel_email_send makes one send_email task per occurrence of a
\* recipient that passes validate_email, in input order, and none for any
\* other recipient; no address failing validation reaches send_email or the
\* transport.
C9_OneTaskPerValidRecipient ==
    par.pc # "idle" =>
        /\ Len(frames) = Cardinality({i \in DOMAIN par.recipient_list :
                                          validate_email(par.recipient_list[i])})
        /\ \A k \in DOMAIN frames :
              /\ ~frames[k].arg.isstr /\ Len(frames[k].arg.v) = 1
              /\ validate_email(frames[k].arg.v[1])
        /\ \A a \in Addresses :
              Cardinality({k \in DOMAIN frames : frames[k].arg.v = <<a>>}) =
                  IF validate_email(a) THEN Count(par.recipient_list, a) ELSE 0
        /\ \A a \in transport_seen : validate_email(a)

C9_Witness ==
    /\ par.pc = "returned"
    /\ \E i \in DOMAIN par.recipient_list : ~validate_email(par.recipient_list[i])
    /\ \E k, j \in DOMAIN frames : k # j /\ frames[k].arg = frames[j].arg
    /\ transport_seen = {GoodAddr}

\* C10: send_batch_emails handles the chunks recipient_list[0:B], [B:2B], ...
\* in that order to the end of the list whatever the chunks' sends do; on
\* return failed_recipients are the recipients of the chunks whose send
\* failed, in input order, failure_count is their number, success_count the
\* number of recipients of the other chunks, and the two add up to the length.
NumChunks(n) == (n + BATCH_SIZE - 1) \div BATCH_SIZE
ChunkOf(l, c) == SubSeq(l, (c - 1) * BATCH_SIZE + 1, Min(c * BATCH_SIZE, Len(l)))
FailedOf(l, chunks) ==
    Flatten([c \in DOMAIN chunks |-> IF chunks[c].ok THEN <<>> ELSE ChunkOf(l, c)])

C10_BatchChunks ==
    bat.pc = "returned" =>
        LET l == bat.recipient_list IN
        /\ Len(bat.chunks) = NumChunks(Len(l))
        /\ \A c \in DOMAIN bat.chunks : bat.chunks[c].batch = ChunkOf(l, c)
        /\ [j \in DOMAIN bat.failed_recipients |-> bat.failed_recipients[j].recipient]
              = FailedOf(l, bat.chunks)
        /\ bat.failure_count = Len(bat.failed_recipients)
        /\ bat.success_count = Len(l) - Len(FailedOf(l, bat.chunks))
        /\ bat.success_count + bat.failure_count = Len(l)

C10_Witness ==
    /\ bat.pc = "returned"
    /\ Len(bat.recipient_list) = 2 * BATCH_SIZE
    /\ ~bat.chunks[1].ok
    /\ bat.chunks[2].ok
    /\ bat.recipient_list[1] # bat.recipient_list[2]

\* the records of the input that the call never sent successfully, in input order
NeverSucceeded(r) ==
    LET keep == SelectSeq([i \in DOMAIN r.input |-> i], LAMBDA i : i \notin r.succeeded)
    IN [q \in DOMAIN keep |-> r.input[keep[q]]]

\* C11: when retry_failed_emails returns after `retries` = N rounds, no record
\* was attempted after its successful send, every record that never succeeded
\* was attempted N times, every record that succeeded was attempted once per
\* round up to that round, and the list holds exactly the records that never
\* succeeded, in input order.
C11_RetryDrainsInOrder ==
    ret.pc = "returned" /\ (\A i \in DOMAIN ret.input : KeysRead \subseteq DOMAIN ret.input[i]) =>
        /\ ret.late = {}
        /\ \A i \in DOMAIN ret.input :
              /\ i \notin ret.succeeded => ret.tried[i] = ret.retries
              /\ i \in ret.succeeded => ret.tried[i] \in 1..ret.retries
        /\ ret.attempt <= ret.retries + 1
        /\ ret.failed_recipients = NeverSucceeded(ret)

\* C12: when retry_failed_emails returns, it has slept once after each round
\* but the last that left records pending, and at no other time; with every
\* send failing that is N - 1 delays.
C12_SleepsBetweenRounds ==
    ret.pc = "returned" =>
        ret.sleeps = Cardinality({a \in 1..(ret.retries - 1) : ret.pending_after[a]})

\* C13: when retry_failed_emails is given the failed_recipients list that
\* send_batch_emails returns (records with the keys recipient and error) and
\* nothing fails in the rendering, the connection or the transport, the list
\* is empty on return.
C13_BatchRecordsRetryable ==
    /\ ret.pc # "raised"
    /\ ret.pc = "returned" /\ ret.retries >= 1 /\ ret.env_failures = 0
          /\ (\A i \in DOMAIN ret.input : DOMAIN ret.input[i] = {"recipient", "error"})
          => ret.failed_recipients = <<>>

Established == {k \in DOMAIN frames : frames[k].established}
ConnFailed == {k \in DOMAIN frames : frames[k].conn_failed}
Handles ==
    ({frames[k].conn : k \in DOMAIN frames} \cup
     {frames[k].thread_conn : k \in DOMAIN frames}) \ {NoConnection}

\* C14: whatever the interleaving of the pool workers and sender threads, the
\* connection is established at most once and every accessor gets one and the
\* same handle.
C14_SingleFlight ==
    /\ Cardinality(Established) <= 1
    /\ Cardinality(Handles \ {NoConnection}) <= 1

\* C15: with the sends made one after the other, once the connection is
\* established every later access returns that handle and get_connection is
\* not called again: there is never a second establishment.
C15_SequentialReuse ==
    /\ Cardinality(Established) <= 1
    /\ connection # NoConnection =>
          /\ get_connection_calls = connection
          /\ Handles \ {NoConnection} \subseteq {connection}
    /\ connection = NoConnection => Handles \ {NoConnection} = {}

C15_Witness ==
    \E k, j \in DOMAIN frames :
        /\ k < j
        /\ frames[k].established /\ frames[k].conn # NoConnection
        /\ ~frames[j].established /\ frames[j].conn = frames[k].conn
        /\ frames[k].thread_conn = frames[k].conn

\* C16 as stated: a failed establishment ends send_email, send_batch_emails and
\* retry_failed_emails with the error raised to the caller.
C16_ConnFailurePropagates ==
    /\ \A k \in DOMAIN frames :
          frames[k].conn_failed /\ frames[k].pc = "returned" =>
              frames[k].raised = "ConnectionFailed" /\ frames[k].result = "None"
    /\ bat.pc # "idle" /\ bat.conn_failed =>
          bat.pc = "raised" /\ bat.raised = "ConnectionFailed"
    /\ ret.pc # "idle" /\ ret.conn_failures > 0 =>
          ret.pc = "raised" /\ ret.raised = "ConnectionFailed"

\* C16 amended: a failed establishment is raised to the caller by
\* send_batch_emails alone, which adds no failed-recipient entry for it;
\* send_email turns it into a False return and retry_failed_emails logs it as
\* the record's failed retry and goes on.
C16_ConnFailureByOperation ==
    /\ \A k \in DOMAIN frames :
          frames[k].conn_failed =>
              /\ frames[k].pc = "returned"
              /\ frames[k].raised = "None" /\ frames[k].result = "False"
    /\ bat.pc # "idle" /\ bat.conn_failed =>
          /\ bat.pc = "raised" /\ bat.raised = "ConnectionFailed"
          /\ bat.failed_recipients = <<>> /\ bat.failure_count = 0
    /\ ret.pc # "idle" /\ ret.conn_failures > 0 =>
          /\ ret.raised = "None" /\ ret.pc \in {"round", "returned"}
          /\ ret.errors >= 2 * ret.conn_failures

C16_Witness ==
    \E k \in DOMAIN frames :
        /\ frames[k].conn_failed /\ frames[k].result = "False"
        /\ ~frames[k].async_send

\* C17: send_transactional_email calls send_email exactly for the mapped event
\* types, once, with the recipient, and returns what it returned; for any
\* other event type it returns False after one error log entry without calling
\* send_email; it raises nothing.
C17_TransactionalDispatch ==
    tx.pc # "idle" =>
        /\ tx.raised = "None"
        /\ tx.event_type \in {"welcome", "password_reset", "account_verification"}
              <=> Len(frames) = 1
        /\ Len(frames) <= 1
        /\ Len(frames) = 1 => frames[1].arg = StrArg(tx.recipient)
        /\ tx.pc = "returned" /\ Len(frames) = 1 =>
              frames[1].pc = "returned" /\ tx.result = frames[1].result
        /\ Len(frames) = 0 =>
              tx.pc = "returned" /\ tx.result = "False" /\ tx.errors = 1

C17_Witness ==
    /\ tx.pc = "returned"
    /\ tx.event_type = "password_reset"
    /\ tx.result = "False"
    /\ frames[1].sent = "raised"

\* C18: for a mapped event, when send_transactional_email returns after its
\* message was built, the transport send has finished on the calling thread
\* and the value returned tells whether it succeeded.
C18_TransactionalSynchronous ==
    tx.pc = "returned" /\ Len(frames) = 1 /\ frames[1].built =>
        /\ frames[1].sent \in {"ok", "raised"}
        /\ frames[1].sent_by = "caller"
        /\ tx.result = (IF frames[1].sent = "ok" THEN "True" ELSE "False")

\* the address grammar: local part, one "@", domain, ".", two or more letters,
\* and nothing else
AddressGrammar(s) ==
    /\ Cardinality({i \in DOMAIN s : s[i] = "@"}) = 1
    /\ LET at == CHOOSE i \in DOMAIN s : s[i] = "@"
           dots == {i \in (at + 1)..Len(s) : s[i] = "."}
       IN /\ at > 1
          /\ \A i \in 1..(at - 1) : s[i] \in LocalChars
          /\ dots # {}
          /\ LET dot == CHOOSE d \in dots : \A e \in dots : e <= d IN
             /\ dot > at + 1
             /\ \A i \in (at + 1)..(dot - 1) : s[i] \in DomainChars
             /\ Len(s) - dot >= 2
             /\ \A i \in (dot + 1)..Len(s) : s[i] \in Letters

\* C19: validate_email returns True exactly for the strings of the address
\* grammar with at most 254 characters and at most 64 before the "@", False for
\* every other string, and raises nothing.
C19_ValidateIsGrammar ==
    val.pc = "done" =>
        /\ val.raised = "None"
        /\ val.result =
              (/\ AddressGrammar(val.email)
               /\ Len(val.email) <= 254
               /\ Len(LocalPart(val.email)) <= 64)

\* C20 as stated: after a failed establishment no further establishment is
\* attempted and the connection is never obtained.
C20_StickyFailure ==
    ConnFailed # {} => get_connection_calls = 1 /\ connection = NoConnection

\* C20 amended: a failed establishment caches nothing: self._connection is
\* still None, so every later access attempts the establishment again,
\* and obtains the connection if that attempt succeeds.
C20_FailureNotCached ==
    /\ connection = NoConnection <=> Established = {}
    /\ get_connection_calls = Cardinality(ConnFailed) + Cardinality(Established)
    /\ \A k \in DOMAIN frames :
          frames[k].conn_accessed /\ frames[k].pc \in {"dispatch", "returned"} =>
              frames[k].conn_failed \/ frames[k].conn = connection

C20_Witness ==
    \E k, j \in DOMAIN frames :
        /\ k < j
        /\ frames[k].conn_failed
        /\ frames[j].established /\ frames[j].conn = connection
        /\ get_connection_calls = 2

\* sender thread k is inside `with self.service.connection as connection:` and
\* its send_messages call has not finished
InScope(k) == frames[k].thread = "in_scope"

\* sender thread k leaves the with block in this step: the connection's
\* __exit__ runs, which closes the connection
ClosesConnection(k) == InScope(k) /\ frames'[k].thread = "done"

\* C21: no sender thread closes the shared connection while another sender
\* thread that entered the scope of the same connection has not finished its
\* send_messages call.
C21_NoCloseUnderSender ==
    [][\A k \in DOMAIN frames :
          ClosesConnection(k) =>
              \A j \in DOMAIN frames \ {k} :
                  ~(InScope(j) /\ frames[j].thread_conn = frames[k].thread_conn)]_vars

====
